---- MODULE Spec2Model ----
(***************************************************************************)
(* MAp: mutation accumulation in plasmids.                                 *)
(* Model of py_MAp_2_experiment.ipynb: simulateTransfer (the transfer      *)
(* protocol of one replicate attempt), runExperiments (the campaign        *)
(* controller with its file-name cache) and the notebook cell that calls   *)
(* runExperiments.  The classes of module MAp (Plasmid, Bacteria,          *)
(* Population) are not part of the notebook; they are modelled from the    *)
(* specification.                                                          *)
(***************************************************************************)
EXTENDS Integers, Sequences, FiniteSets, TLC

\* ---------------------------------------------------------------- bounds
\* largest num_reps drawn in Init
MaxReps == 2
\* largest maxexpe drawn in Init
MaxExpe == 3
\* largest copy-number ceiling drawn in CellInit
MaxCopies == 3
\* the << num_days, num_generations >> drawn in Init (60 and 24 in the notebook)
Shapes == { << 2, 1 >>, << 3, 1 >>, << 1, 2 >> }
\* the list max_plasmids of copy numbers to sweep ([1, 5, 10, 50, 100] in the notebook)
max_plasmids == { 1, 2 }
\* the notebook's own list, for the file names it gives rise to
max_plasmids_list == { 1, 5, 10, 50, 100 }

VARIABLES
    num_days,            \* global: days per attempt
    num_generations,     \* global: generations per day
    num_reps,            \* global: replicates wanted per sweep
    maxexpe,             \* global: attempt ceiling
    mut_rate,            \* global: 0, or 1 standing for a rate in (0,1)
    this_max_plasmids,   \* argument of the running runExperiments call
    pc,                  \* position of control
    irep,                \* runExperiments: replicate index
    nexpe,               \* runExperiments: attempt counter
    this_nexpe,          \* runExperiments: attempt count read from the cache
    fileSIM,             \* runExperiments: name of the replicate's log file
    eureka_n,            \* runExperiments: what the attempt returned
    experiment_results,  \* runExperiments: the result collection
    files,               \* directory dirSIM/data: log files, by name
    pkls,                \* directory dirSIM/data: aggregate artifacts, by name
    pop,                 \* simulateTransfer: pop.bacteria
    day,                 \* simulateTransfer: loop variable day
    ti,                  \* simulateTransfer: loop variable ti
    nextId,              \* next plasmid id
    outcome,             \* history: how the last attempt of this iteration ended
    sawSeg,              \* history: a grow step of this attempt left a segregant
    calls,               \* history: simulateTransfer calls of this run
    callsRep,            \* history: simulateTransfer calls for index irep in this run
    grows,               \* history: grow calls of this attempt
    drawn,               \* history: the populations the grow calls of this attempt returned
    warm,                \* history: every index had a tagged artifact when the run began
    fh,                  \* simulateTransfer: the name the open file f is bound to (<< >>: none)
    other                \* the local state of a second process running the notebook, parked

\* the notebook's user-defined parameters: set once, read everywhere
globals == << num_days, num_generations, num_reps, maxexpe, mut_rate >>

vars == << globals, this_max_plasmids, pc, irep, nexpe,
           this_nexpe, fileSIM, eureka_n, experiment_results, files, pkls,
           pop, day, ti, nextId, outcome, sawSeg, calls, callsRep, grows, drawn, warm, fh, other >>

\* ------------------------------------------------------------ file names
DigitChars == << "0", "1", "2", "3", "4", "5", "6", "7", "8", "9" >>

IsDigit(c) == \E d \in 1..10 : DigitChars[d] = c

DigitVal(c) == (CHOOSE d \in 1..10 : DigitChars[d] = c) - 1

\* str(n) for a natural number n, one character per element
RECURSIVE str(_)
str(n) == IF n < 10 THEN << DigitChars[n + 1] >>
          ELSE str(n \div 10) \o << DigitChars[(n % 10) + 1] >>

\* mutant of BaseName: the copy number is left out of the name
BaseName_nomaxp(mr, m) ==
    << "MAp_days" >> \o str(num_days) \o << "_gens" >> \o str(num_generations)
      \o << "_mut" >> \o str(mr) \o << "_maxp" >>

\* 'MAp_days'+str(num_days)+'_gens'+str(num_generations)+'_mut'+str(mut_rate)
\*   +'_maxp'+str(m)
BaseName(mr, m) ==
    << "MAp_days" >> \o str(num_days) \o << "_gens" >> \o str(num_generations)
      \o << "_mut" >> \o str(mr) \o << "_maxp" >> \o str(m)

\* the name simulateTransfer writes: ..._irep<i>.txt
UntaggedName(mr, m, i) ==
    BaseName(mr, m) \o << "_", "i", "r", "e", "p" >> \o str(i) \o << ".txt" >>

\* os.path.splitext(fileSIM)[0]+'_n'+str(k)+'.txt', and the name of a cache hit
TaggedName(mr, m, i, k) ==
    BaseName(mr, m) \o << "_", "i", "r", "e", "p" >> \o str(i)
      \o << "_", "n" >> \o str(k) \o << ".txt" >>

\* mutant of str_pattern: the closing underscore is left out
str_pattern_open(mr, m, i) ==
    BaseName(mr, m) \o << "_", "i", "r", "e", "p" >> \o str(i)

\* str_pattern of runExperiments: ..._irep<i>_
str_pattern(mr, m, i) ==
    BaseName(mr, m) \o << "_", "i", "r", "e", "p" >> \o str(i) \o << "_" >>

\* filePKL_expe
PklName(mr, m) == BaseName(mr, m) \o << ".pkl" >>

\* filepath.startswith(p)
startswith(s, p) == Len(p) <= Len(s) /\ SubSeq(s, 1, Len(p)) = p

\* int(s) for a sequence of digit characters
RECURSIVE int(_)
int(s) == IF Len(s) = 0 THEN 0
          ELSE 10 * int(SubSeq(s, 1, Len(s) - 1)) + DigitVal(s[Len(s)])

\* int(re.findall('[0-9]+', s)[-1]): the last maximal run of digits of s
LastNumber(s) ==
    LET e == CHOOSE j \in 1..Len(s) :
                 IsDigit(s[j]) /\ \A l \in (j + 1)..Len(s) : ~IsDigit(s[l])
        b == CHOOSE j \in 1..e :
                 /\ \A l \in j..e : IsDigit(s[l])
                 /\ (j = 1 \/ ~IsDigit(s[j - 1]))
    IN  int(SubSeq(s, b, e))

\* mutant of CacheLookup: the pattern is built for the wrong replicate index
CacheLookup_shifted(dir, mr, m, i) ==
    LET hits == { f \in DOMAIN dir : startswith(f, str_pattern(mr, m, i + 1)) }
    IN  IF hits = {} THEN {0} ELSE { LastNumber(f) : f \in hits }

\* the loop over os.listdir(dir): the values this_nexpe can end with
CacheLookup(dir, mr, m, i) ==
    LET hits == { f \in DOMAIN dir : startswith(f, str_pattern(mr, m, i)) }
    IN  IF hits = {} THEN {0} ELSE { LastNumber(f) : f \in hits }

\* a tagged artifact (name ending in _n<k>, k >= 1) of index i is in dir
HasTagged(dir, mr, m, i) ==
    \E f \in DOMAIN dir : LastNumber(f) >= 1 /\ f = TaggedName(mr, m, i, LastNumber(f))

\* a directory with name n (re)bound to content c, and with name n removed
Put(dir, n, c) == [ f \in (DOMAIN dir) \cup {n} |-> IF f = n THEN c ELSE dir[f] ]

Remove(dir, n) == [ f \in (DOMAIN dir) \ {n} |-> dir[f] ]

\* os.rename(a, b)
Rename(dir, a, b) == Put(Remove(dir, a), b, dir[a])

EmptyDir == [ f \in {} |-> << >> ]

\* no file: the value of a closed handle, and of a handle whose file was unlinked
NoFile == << >>

\* what a handle bound to name h is bound to after os.remove(n), after os.rename(a, b)
AfterRemove(h, n) == IF h = n THEN NoFile ELSE h

AfterRename(h, a, b) == IF h = a THEN b ELSE IF h = b THEN NoFile ELSE h

\* a log after a write of row at row position k (rows skipped over are holes)
WriteAt(log, k, row) ==
    IF k <= Len(log) THEN [ log EXCEPT ![k] = row ]
    ELSE log \o [ j \in 1..(k - Len(log) - 1) |-> << >> ] \o << row >>

\* the place of a second process when there is none
NoWorker == [ pc |-> "none", fh |-> NoFile ]

\* ------------------------------------------------- MAp classes (from spec)
\* MAp.Plasmid(): a wild-type seed
Plasmid(id) == [ id |-> id, mutated |-> FALSE, parent |-> 0 ]

\* mutant of replicate: the copy takes the trial's result, not the parent's state
replicate_fresh(p, id, hit) == [ id |-> id, mutated |-> hit, parent |-> p.id ]

\* Plasmid.replicate: the copy of p when the mutation trial gives hit
replicate(p, id, hit) == [ id |-> id, mutated |-> p.mutated \/ hit, parent |-> p.id ]

\* mutant of MutDraws: the trial can succeed whatever the rate
MutDraws_always(mr) == { TRUE, FALSE }

\* outcomes of the Bernoulli trial with probability mr
MutDraws(mr) == IF mr > 0 THEN { TRUE, FALSE } ELSE { FALSE }

MutCount(ps) == Cardinality({ j \in 1..Len(ps) : ps[j].mutated })

\* Bacteria.replicateToCapacity: every << plasmids, next id >> it can end with;
\* pool is the pre-replication pool the parents are sampled from
RECURSIVE RepOutcomes(_, _, _, _, _)
RepOutcomes(pool, ps, id, mr, m) ==
    IF Len(ps) >= m THEN { << ps, id >> }
    ELSE UNION { RepOutcomes(pool, Append(ps, replicate(pool[j], id, hit)), id + 1, mr, m) :
                   j \in 1..Len(pool), hit \in MutDraws(mr) }

\* mutant of replicateToCapacity: the loop runs once more than it should
replicateToCapacity_over(b, id, mr, m) == RepOutcomes(b.plasmids, b.plasmids, id, mr, m + 1)

replicateToCapacity(b, id, mr, m) == RepOutcomes(b.plasmids, b.plasmids, id, mr, m)

\* the subsequence of ps at the positions in S
RECURSIVE Pick(_, _, _)
Pick(ps, S, j) ==
    IF j > Len(ps) THEN << >>
    ELSE (IF j \in S THEN << ps[j] >> ELSE << >>) \o Pick(ps, S, j + 1)

\* mutant of segregate: daughter B is given the parent's whole pool
segregate_dup(b) ==
    { LET A == Pick(b.plasmids, S, 1)
          B == b.plasmids
          ev == b.seg \/ MutCount(A) # MutCount(B)
      IN  << [ plasmids |-> A, seg |-> ev ], [ plasmids |-> B, seg |-> ev ] >> :
      S \in SUBSET (1..Len(b.plasmids)) }

\* Bacteria.segregate: every pair of daughters a fair coin per plasmid gives
segregate(b) ==
    { LET A == Pick(b.plasmids, S, 1)
          B == Pick(b.plasmids, (1..Len(b.plasmids)) \ S, 1)
          ev == b.seg \/ MutCount(A) # MutCount(B)
      IN  << [ plasmids |-> A, seg |-> ev ], [ plasmids |-> B, seg |-> ev ] >> :
      S \in SUBSET (1..Len(b.plasmids)) }

\* Population.grow: every << next generation, next id >> it can produce
RECURSIVE GrowFrom(_, _, _, _, _)
GrowFrom(bs, j, id, mr, m) ==
    IF j > Len(bs) THEN { << << >>, id >> }
    ELSE UNION { UNION { { << d \o rest[1], rest[2] >> : d \in segregate([ bs[j] EXCEPT !.plasmids = r[1] ]) } :
                           rest \in GrowFrom(bs, j + 1, r[2], mr, m) } :
                   r \in replicateToCapacity(bs[j], id, mr, m) }

grow(bs, id, mr, m) == GrowFrom(bs, 1, id, mr, m)

\* the summary string grow returns: per cell, plasmid count and mutated count
str_mut(bs) == [ j \in 1..Len(bs) |-> << Len(bs[j].plasmids), MutCount(bs[j].plasmids) >> ]

\* Population.is_segregant
is_segregant(bs) == \E j \in 1..Len(bs) : Len(bs[j].plasmids) = 0

\* Population.isWT
isWT(bs) == \A j \in 1..Len(bs) : MutCount(bs[j].plasmids) = 0 /\ ~bs[j].seg

\* B0 of simulateTransfer: max_plasmids wild-type plasmids, then simulate_plasmids
Founder(m) == [ plasmids |-> [ j \in 1..m |-> Plasmid(j) ], seg |-> FALSE ]

\* ------------------------------------------------------- simulateTransfer
\* the first n rows of the log of an attempt whose grow calls returned ds
ReplayRows(ds, n) ==
    [ k \in 1..n |-> << (k - 1) \div num_generations, (k - 1) % num_generations,
                        str_mut(ds[k]) >> ]

\* mutant of LoopPos: the day loop ends one day early
LoopPos_short(d, t) ==
    IF d >= num_days - 1 THEN "wtcheck"
    ELSE IF t >= num_generations THEN "transfer"
    ELSE "grow"

\* where the nested loops over day and ti stand, given the two loop variables
LoopPos(d, t) ==
    IF d >= num_days THEN "wtcheck"
    ELSE IF t >= num_generations THEN "transfer"
    ELSE "grow"

\* the content open(fileSIM, 'w') leaves: an empty log (m, i, success are history)
NewLog(m, i) == [ log |-> << >>, m |-> m, i |-> i, success |-> FALSE ]

\* mutant of simulateTransfer: fileSIM is opened for appending
simulateTransfer_append ==
    /\ pc = "call"
    /\ pop' = << Founder(this_max_plasmids) >>
    /\ nextId' = this_max_plasmids + 1
    /\ LET n == UntaggedName(mut_rate, this_max_plasmids, irep)
       IN  files' = IF n \in DOMAIN files THEN files
                    ELSE Put(files, n, NewLog(this_max_plasmids, irep))
    /\ day' = 0
    /\ ti' = 0
    /\ sawSeg' = FALSE
    /\ grows' = 0
    /\ drawn' = << >>
    /\ calls' = IF calls <= MaxReps * MaxExpe THEN calls + 1 ELSE calls
    /\ callsRep' = IF callsRep <= MaxExpe THEN callsRep + 1 ELSE callsRep
    /\ outcome' = "running"
    /\ pc' = LoopPos(0, 0)
    /\ fh' = UntaggedName(mut_rate, this_max_plasmids, irep)
    /\ UNCHANGED << globals, this_max_plasmids, irep, nexpe,
                    this_nexpe, fileSIM, eureka_n, experiment_results, pkls, warm, other >>

\* entry of simulateTransfer: the founder, the population, fileSIM opened for writing
simulateTransfer ==
    /\ pc = "call"
    /\ pop' = << Founder(this_max_plasmids) >>
    /\ nextId' = this_max_plasmids + 1
    /\ files' = Put(files, UntaggedName(mut_rate, this_max_plasmids, irep),
                    NewLog(this_max_plasmids, irep))
    /\ day' = 0
    /\ ti' = 0
    /\ sawSeg' = FALSE
    /\ grows' = 0
    /\ drawn' = << >>
    \* the history counters stop one past the most calls a run can make
    /\ calls' = IF calls <= MaxReps * MaxExpe THEN calls + 1 ELSE calls
    /\ callsRep' = IF callsRep <= MaxExpe THEN callsRep + 1 ELSE callsRep
    /\ outcome' = "running"
    /\ pc' = LoopPos(0, 0)
    /\ fh' = UntaggedName(mut_rate, this_max_plasmids, irep)
    /\ UNCHANGED << globals, this_max_plasmids, irep, nexpe,
                    this_nexpe, fileSIM, eureka_n, experiment_results, pkls, warm, other >>

\* str_mut = pop.grow()
Grow ==
    /\ pc = "grow"
    /\ \E r \in grow(pop, nextId, mut_rate, this_max_plasmids) :
          /\ pop' = r[1]
          /\ nextId' = r[2]
          /\ sawSeg' = (sawSeg \/ \E j \in 1..Len(r[1]) : r[1][j].plasmids = << >>)
          /\ drawn' = Append(drawn, r[1])
    /\ grows' = grows + 1
    /\ pc' = "segcheck"
    /\ UNCHANGED << globals, this_max_plasmids, irep, nexpe,
                    this_nexpe, fileSIM, eureka_n, experiment_results, files, pkls,
                    day, ti, outcome, calls, callsRep, warm, fh, other >>

\* mutant of SegregantReturn: the log is removed, as on the wild-type path
SegregantReturn_remove ==
    /\ pc = "segcheck"
    /\ is_segregant(pop)
    /\ files' = Remove(files, UntaggedName(mut_rate, this_max_plasmids, irep))
    /\ eureka_n' = 0
    /\ outcome' = "segregant"
    /\ pc' = "after"
    /\ fh' = NoFile
    /\ other' = [ other EXCEPT !.fh = AfterRemove(@, UntaggedName(mut_rate, this_max_plasmids, irep)) ]
    /\ UNCHANGED << globals, this_max_plasmids, irep, nexpe,
                    this_nexpe, fileSIM, experiment_results, pkls,
                    pop, day, ti, nextId, sawSeg, calls, callsRep, grows, drawn, warm >>

\* mutant of SegregantReturn: the segregant attempt returns 1
SegregantReturn_one ==
    /\ pc = "segcheck"
    /\ is_segregant(pop)
    /\ eureka_n' = 1
    /\ outcome' = "segregant"
    /\ pc' = "after"
    /\ fh' = NoFile
    /\ UNCHANGED << globals, this_max_plasmids, irep, nexpe,
                    this_nexpe, fileSIM, experiment_results, files, pkls,
                    pop, day, ti, nextId, sawSeg, calls, callsRep, grows, drawn, warm, other >>

\* if pop.is_segregant(): return 0
SegregantReturn ==
    /\ pc = "segcheck"
    /\ is_segregant(pop)
    /\ eureka_n' = 0
    /\ outcome' = "segregant"
    /\ pc' = "after"
    /\ fh' = NoFile
    /\ UNCHANGED << globals, this_max_plasmids, irep, nexpe,
                    this_nexpe, fileSIM, experiment_results, files, pkls,
                    pop, day, ti, nextId, sawSeg, calls, callsRep, grows, drawn, warm, other >>

\* mutant of WriteRow: the row is written whether or not there is a segregant
WriteRow_unchecked ==
    /\ pc = "segcheck"
    /\ LET k == day * num_generations + ti + 1
           row == << day, ti, str_mut(pop) >>
       IN  files' = IF fh \in DOMAIN files
                    THEN Put(files, fh,
                             [ files[fh] EXCEPT
                                 !.log = WriteAt(@, k, row),
                                 !.success = @ /\ k <= Len(files[fh].log)
                                               /\ files[fh].log[k] = row ])
                    ELSE files
    /\ ti' = ti + 1
    /\ pc' = LoopPos(day, ti + 1)
    /\ UNCHANGED << globals, this_max_plasmids, irep, nexpe,
                    this_nexpe, fileSIM, eureka_n, experiment_results, pkls,
                    pop, day, nextId, outcome, sawSeg, calls, callsRep, grows, drawn, warm, fh, other >>

\* f.write(f"{day};{ti};{str_mut}"), then the next ti
WriteRow ==
    /\ pc = "segcheck"
    /\ ~is_segregant(pop)
    /\ LET k == day * num_generations + ti + 1
           row == << day, ti, str_mut(pop) >>
       IN  files' = IF fh \in DOMAIN files
                    THEN Put(files, fh,
                             [ files[fh] EXCEPT
                                 !.log = WriteAt(@, k, row),
                                 !.success = @ /\ k <= Len(files[fh].log)
                                               /\ files[fh].log[k] = row ])
                    ELSE files
    /\ ti' = ti + 1
    /\ pc' = LoopPos(day, ti + 1)
    /\ UNCHANGED << globals, this_max_plasmids, irep, nexpe,
                    this_nexpe, fileSIM, eureka_n, experiment_results, pkls,
                    pop, day, nextId, outcome, sawSeg, calls, callsRep, grows, drawn, warm, fh, other >>

\* mutant of DayTransfer: the last bacterium of the day is kept
DayTransfer_last ==
    /\ pc = "transfer"
    /\ pop' = << pop[Len(pop)] >>
    /\ day' = day + 1
    /\ ti' = 0
    /\ pc' = LoopPos(day + 1, 0)
    /\ UNCHANGED << globals, this_max_plasmids, irep, nexpe,
                    this_nexpe, fileSIM, eureka_n, experiment_results, files, pkls,
                    nextId, outcome, sawSeg, calls, callsRep, grows, drawn, warm, fh, other >>

\* Bi = pop.bacteria[0]; pop = MAp.Population([Bi]), then the next day
DayTransfer ==
    /\ pc = "transfer"
    /\ pop' = << pop[1] >>
    /\ day' = day + 1
    /\ ti' = 0
    /\ pc' = LoopPos(day + 1, 0)
    /\ UNCHANGED << globals, this_max_plasmids, irep, nexpe,
                    this_nexpe, fileSIM, eureka_n, experiment_results, files, pkls,
                    nextId, outcome, sawSeg, calls, callsRep, grows, drawn, warm, fh, other >>

\* mutant of WildTypeReturn: the wild-type attempt returns 1
WildTypeReturn_one ==
    /\ pc = "wtcheck"
    /\ isWT(pop)
    /\ UntaggedName(mut_rate, this_max_plasmids, irep) \in DOMAIN files
    /\ files' = Remove(files, UntaggedName(mut_rate, this_max_plasmids, irep))
    /\ eureka_n' = 1
    /\ outcome' = "wildType"
    /\ pc' = "after"
    /\ fh' = NoFile
    /\ other' = [ other EXCEPT !.fh = AfterRemove(@, UntaggedName(mut_rate, this_max_plasmids, irep)) ]
    /\ UNCHANGED << globals, this_max_plasmids, irep, nexpe,
                    this_nexpe, fileSIM, experiment_results, pkls,
                    pop, day, ti, nextId, sawSeg, calls, callsRep, grows, drawn, warm >>

\* mutant of WildTypeReturn: os.remove is left out
WildTypeReturn_keep ==
    /\ pc = "wtcheck"
    /\ isWT(pop)
    /\ eureka_n' = 0
    /\ outcome' = "wildType"
    /\ pc' = "after"
    /\ fh' = NoFile
    /\ UNCHANGED << globals, this_max_plasmids, irep, nexpe,
                    this_nexpe, fileSIM, experiment_results, files, pkls,
                    pop, day, ti, nextId, sawSeg, calls, callsRep, grows, drawn, warm, other >>

\* wt = pop.isWT(); if wt == 1: os.remove(fileSIM); return 0
WildTypeReturn ==
    /\ pc = "wtcheck"
    /\ isWT(pop)
    /\ UntaggedName(mut_rate, this_max_plasmids, irep) \in DOMAIN files
    /\ files' = Remove(files, UntaggedName(mut_rate, this_max_plasmids, irep))
    /\ eureka_n' = 0
    /\ outcome' = "wildType"
    /\ pc' = "after"
    /\ fh' = NoFile
    /\ other' = [ other EXCEPT !.fh = AfterRemove(@, UntaggedName(mut_rate, this_max_plasmids, irep)) ]
    /\ UNCHANGED << globals, this_max_plasmids, irep, nexpe,
                    this_nexpe, fileSIM, experiment_results, pkls,
                    pop, day, ti, nextId, sawSeg, calls, callsRep, grows, drawn, warm >>

\* return 1
SuccessReturn ==
    /\ pc = "wtcheck"
    /\ ~isWT(pop)
    /\ files' = IF fh \in DOMAIN files
                THEN Put(files, fh, [ files[fh] EXCEPT
                         !.success = (files[fh].log = ReplayRows(drawn, Len(drawn))) ])
                ELSE files
    /\ eureka_n' = 1
    /\ outcome' = "success"
    /\ pc' = "after"
    /\ fh' = NoFile
    /\ UNCHANGED << globals, this_max_plasmids, irep, nexpe,
                    this_nexpe, fileSIM, experiment_results, pkls,
                    pop, day, ti, nextId, sawSeg, calls, callsRep, grows, drawn, warm, other >>

\* --------------------------------------------------------- runExperiments
\* while irep<num_reps and nexpe<maxexpe
LoopGuard == irep < num_reps /\ nexpe < maxexpe

\* this_nexpe==0: fileSIM is the untagged name and simulateTransfer is called
CacheMiss ==
    /\ pc = "while"
    /\ LoopGuard
    /\ 0 \in CacheLookup(files, mut_rate, this_max_plasmids, irep)
    /\ this_nexpe' = 0
    /\ fileSIM' = UntaggedName(mut_rate, this_max_plasmids, irep)
    /\ pc' = "call"
    /\ UNCHANGED << globals, this_max_plasmids, irep, nexpe,
                    eureka_n, experiment_results, files, pkls,
                    pop, day, ti, nextId, outcome, sawSeg, calls, callsRep, grows, drawn, warm, fh, other >>

\* mutant of CacheHit: the commented-out irep=irep+1 of the branch is executed
CacheHit_skip ==
    /\ pc = "while"
    /\ LoopGuard
    /\ \E k \in CacheLookup(files, mut_rate, this_max_plasmids, irep) \ {0} :
          /\ this_nexpe' = k
          /\ fileSIM' = TaggedName(mut_rate, this_max_plasmids, irep, k)
          /\ eureka_n' = k
          /\ nexpe' = k
    /\ irep' = irep + 1
    /\ outcome' = "cached"
    /\ pc' = "after"
    /\ UNCHANGED << globals, this_max_plasmids,
                    experiment_results, files, pkls,
                    pop, day, ti, nextId, sawSeg, calls, callsRep, grows, drawn, warm, fh, other >>

\* mutant of CacheHit: the name is rebuilt with the attempt count plus one
CacheHit_offbyone ==
    /\ pc = "while"
    /\ LoopGuard
    /\ \E k \in CacheLookup(files, mut_rate, this_max_plasmids, irep) \ {0} :
          /\ this_nexpe' = k
          /\ fileSIM' = TaggedName(mut_rate, this_max_plasmids, irep, k + 1)
          /\ eureka_n' = k
          /\ nexpe' = k
    /\ outcome' = "cached"
    /\ pc' = "after"
    /\ UNCHANGED << globals, this_max_plasmids, irep,
                    experiment_results, files, pkls,
                    pop, day, ti, nextId, sawSeg, calls, callsRep, grows, drawn, warm, fh, other >>

\* this_nexpe>0: the tagged file is taken as the replicate's result
CacheHit ==
    /\ pc = "while"
    /\ LoopGuard
    /\ \E k \in CacheLookup(files, mut_rate, this_max_plasmids, irep) \ {0} :
          /\ this_nexpe' = k
          /\ fileSIM' = TaggedName(mut_rate, this_max_plasmids, irep, k)
          /\ eureka_n' = k
          /\ nexpe' = k
    /\ outcome' = "cached"
    /\ pc' = "after"
    /\ UNCHANGED << globals, this_max_plasmids, irep,
                    experiment_results, files, pkls,
                    pop, day, ti, nextId, sawSeg, calls, callsRep, grows, drawn, warm, fh, other >>

\* rep_results: the statistics of the imported log, and the attempt count
rep_results(i, n, data) == [ irep |-> i, nexpe |-> n, data |-> data ]

\* os.path.splitext(f)[0]+'_n'+str(n)+'.txt'
fileSIM_expe(f, n) == SubSeq(f, 1, Len(f) - 1) \o << "_", "n" >> \o str(n) \o << ".txt" >>

\* the attempt counter after a success: reset after a fresh one only
NexpeAfterSuccess(tn, n) == IF tn = 0 THEN 0 ELSE n

\* if eureka_n>0: import, statistics, counters, append, rename
Aggregate ==
    /\ pc = "after"
    /\ eureka_n > 0
    /\ fileSIM \in DOMAIN files
    /\ irep' = irep + 1
    /\ experiment_results' =
           Append(experiment_results, rep_results(irep, nexpe + 1, files[fileSIM].log))
    /\ files' = IF this_nexpe = 0
                THEN Rename(files, fileSIM, fileSIM_expe(fileSIM, nexpe + 1))
                ELSE files
    /\ nexpe' = NexpeAfterSuccess(this_nexpe, nexpe + 1)
    /\ callsRep' = 0
    /\ pop' = << >>
    /\ day' = 0
    /\ ti' = 0
    /\ nextId' = 1
    /\ sawSeg' = FALSE
    /\ grows' = 0
    /\ drawn' = << >>
    /\ outcome' = "none"
    /\ pc' = "while"
    /\ other' = IF this_nexpe = 0
                 THEN [ other EXCEPT !.fh = AfterRename(@, fileSIM, fileSIM_expe(fileSIM, nexpe + 1)) ]
                 ELSE other
    /\ UNCHANGED << globals, this_max_plasmids,
                    this_nexpe, fileSIM, eureka_n, pkls, calls, warm, fh >>

\* mutant of Discard: the attempt counter is not advanced
Discard_stuck ==
    /\ pc = "after"
    /\ ~(eureka_n > 0)
    /\ nexpe' = nexpe
    /\ pop' = << >>
    /\ day' = 0
    /\ ti' = 0
    /\ nextId' = 1
    /\ sawSeg' = FALSE
    /\ grows' = 0
    /\ drawn' = << >>
    /\ outcome' = "none"
    /\ pc' = "while"
    /\ UNCHANGED << globals, this_max_plasmids, irep,
                    this_nexpe, fileSIM, eureka_n, experiment_results, files, pkls,
                    calls, callsRep, warm, fh, other >>

\* else: nexpe=nexpe+1
Discard ==
    /\ pc = "after"
    /\ ~(eureka_n > 0)
    /\ nexpe' = nexpe + 1
    /\ pop' = << >>
    /\ day' = 0
    /\ ti' = 0
    /\ nextId' = 1
    /\ sawSeg' = FALSE
    /\ grows' = 0
    /\ drawn' = << >>
    /\ outcome' = "none"
    /\ pc' = "while"
    /\ UNCHANGED << globals, this_max_plasmids, irep,
                    this_nexpe, fileSIM, eureka_n, experiment_results, files, pkls,
                    calls, callsRep, warm, fh, other >>

\* the loop is left
LoopExit ==
    /\ pc = "while"
    /\ ~LoopGuard
    /\ pc' = "save"
    /\ UNCHANGED << globals, this_max_plasmids, irep, nexpe,
                    this_nexpe, fileSIM, eureka_n, experiment_results, files, pkls,
                    pop, day, ti, nextId, outcome, sawSeg, calls, callsRep, grows, drawn, warm, fh, other >>

\* pickle.dump(experiment_results, f); return experiment_results
SaveResults ==
    /\ pc = "save"
    /\ pkls' = Put(pkls, PklName(mut_rate, this_max_plasmids), experiment_results)
    /\ pc' = "done"
    /\ UNCHANGED << globals, this_max_plasmids, irep, nexpe,
                    this_nexpe, fileSIM, eureka_n, experiment_results, files,
                    pop, day, ti, nextId, outcome, sawSeg, calls, callsRep, grows, drawn, warm, fh, other >>

\* ------------------------------------------------------------ driver cell
\* for this_max_plasmids in max_plasmids: runExperiments(this_max_plasmids, True)
NextSweep ==
    /\ pc = "done"
    /\ this_max_plasmids' \in max_plasmids
    /\ experiment_results' = << >>
    /\ irep' = 0
    /\ nexpe' = 0
    /\ this_nexpe' = 0
    /\ fileSIM' = << >>
    /\ eureka_n' = 0
    /\ outcome' = "none"
    /\ calls' = 0
    /\ callsRep' = 0
    /\ warm' = \A i \in 0..(num_reps - 1) : HasTagged(files, mut_rate, this_max_plasmids', i)
    /\ pc' = "while"
    /\ UNCHANGED << globals, files, pkls,
                    pop, day, ti, nextId, sawSeg, grows, drawn, fh, other >>

Init ==
    /\ \E sh \in Shapes : num_days = sh[1] /\ num_generations = sh[2]
    /\ num_reps \in 0..MaxReps
    /\ maxexpe \in 0..MaxExpe
    /\ mut_rate \in { 0, 1 }
    /\ this_max_plasmids \in max_plasmids
    /\ pc = "while"
    /\ irep = 0
    /\ nexpe = 0
    /\ this_nexpe = 0
    /\ fileSIM = << >>
    /\ eureka_n = 0
    /\ experiment_results = << >>
    /\ files = EmptyDir
    /\ pkls = EmptyDir
    /\ pop = << >>
    /\ day = 0
    /\ ti = 0
    /\ nextId = 1
    /\ outcome = "none"
    /\ sawSeg = FALSE
    /\ calls = 0
    /\ callsRep = 0
    /\ grows = 0
    /\ drawn = << >>
    /\ warm = (num_reps = 0)
    /\ fh = NoFile
    /\ other = NoWorker

Next ==
    \/ CacheMiss
    \/ CacheHit
    \/ simulateTransfer
    \/ Grow
    \/ SegregantReturn
    \/ WriteRow
    \/ DayTransfer
    \/ WildTypeReturn
    \/ SuccessReturn
    \/ Aggregate
    \/ Discard
    \/ LoopExit
    \/ SaveResults
    \/ NextSweep

Spec == Init /\ [][Next]_vars

\* the start states of the fair specification: two days of one generation
LiveInit == Init /\ num_days = 2 /\ num_generations = 1

\* the interpreter keeps running the cell: every enabled step is eventually taken
FairSpec == LiveInit /\ [][Next]_vars /\ WF_vars(Next)

\* ------------------------------------------- two processes, one directory
\* the running process's locals, as the record they are parked in
Parked ==
    [ pc |-> pc, irep |-> irep, nexpe |-> nexpe, this_nexpe |-> this_nexpe,
      fileSIM |-> fileSIM, eureka_n |-> eureka_n,
      experiment_results |-> experiment_results, pop |-> pop, day |-> day, ti |-> ti,
      nextId |-> nextId, outcome |-> outcome, sawSeg |-> sawSeg, calls |-> calls,
      callsRep |-> callsRep, grows |-> grows, drawn |-> drawn, warm |-> warm, fh |-> fh ]

\* the scheduler lets the other process run: the two exchange places
Switch ==
    /\ other.pc \notin { "none", "done", "error" }
    /\ other' = Parked
    /\ pc' = other.pc
    /\ irep' = other.irep
    /\ nexpe' = other.nexpe
    /\ this_nexpe' = other.this_nexpe
    /\ fileSIM' = other.fileSIM
    /\ eureka_n' = other.eureka_n
    /\ experiment_results' = other.experiment_results
    /\ pop' = other.pop
    /\ day' = other.day
    /\ ti' = other.ti
    /\ nextId' = other.nextId
    /\ outcome' = other.outcome
    /\ sawSeg' = other.sawSeg
    /\ calls' = other.calls
    /\ callsRep' = other.callsRep
    /\ grows' = other.grows
    /\ drawn' = other.drawn
    /\ warm' = other.warm
    /\ fh' = other.fh
    /\ UNCHANGED << globals, this_max_plasmids, files, pkls >>

\* os.remove(fileSIM) when the name is gone: FileNotFoundError ends the process
RemoveFails ==
    /\ pc = "wtcheck"
    /\ isWT(pop)
    /\ UntaggedName(mut_rate, this_max_plasmids, irep) \notin DOMAIN files
    /\ pc' = "error"
    /\ fh' = NoFile
    /\ UNCHANGED << globals, this_max_plasmids, irep, nexpe,
                    this_nexpe, fileSIM, eureka_n, experiment_results, files, pkls,
                    pop, day, ti, nextId, outcome, sawSeg, calls, callsRep, grows, drawn,
                    warm, other >>

\* MAp.importData(fileSIM) when the name is gone: the error ends the process
ImportFails ==
    /\ pc = "after"
    /\ eureka_n > 0
    /\ fileSIM \notin DOMAIN files
    /\ pc' = "error"
    /\ UNCHANGED << globals, this_max_plasmids, irep, nexpe,
                    this_nexpe, fileSIM, eureka_n, experiment_results, files, pkls,
                    pop, day, ti, nextId, outcome, sawSeg, calls, callsRep, grows, drawn,
                    warm, fh, other >>

\* two processes start runExperiments(2) for one replicate in an empty directory
RaceInit ==
    /\ num_days = 2
    /\ num_generations = 1
    /\ num_reps = 1
    /\ maxexpe \in { 1, 2 }
    /\ mut_rate = 1
    /\ this_max_plasmids = 2
    /\ pc = "while"
    /\ irep = 0
    /\ nexpe = 0
    /\ this_nexpe = 0
    /\ fileSIM = << >>
    /\ eureka_n = 0
    /\ experiment_results = << >>
    /\ files = EmptyDir
    /\ pkls = EmptyDir
    /\ pop = << >>
    /\ day = 0
    /\ ti = 0
    /\ nextId = 1
    /\ outcome = "none"
    /\ sawSeg = FALSE
    /\ calls = 0
    /\ callsRep = 0
    /\ grows = 0
    /\ drawn = << >>
    /\ warm = FALSE
    /\ fh = NoFile
    /\ other = [ pc |-> "while", irep |-> 0, nexpe |-> 0, this_nexpe |-> 0,
                 fileSIM |-> << >>, eureka_n |-> 0, experiment_results |-> << >>,
                 pop |-> << >>, day |-> 0, ti |-> 0, nextId |-> 1, outcome |-> "none",
                 sawSeg |-> FALSE, calls |-> 0, callsRep |-> 0, grows |-> 0,
                 drawn |-> << >>, warm |-> FALSE, fh |-> NoFile ]

RaceNext ==
    \/ CacheMiss
    \/ CacheHit
    \/ simulateTransfer
    \/ Grow
    \/ SegregantReturn
    \/ WriteRow
    \/ DayTransfer
    \/ WildTypeReturn
    \/ SuccessReturn
    \/ Aggregate
    \/ Discard
    \/ LoopExit
    \/ SaveResults
    \/ Switch
    \/ RemoveFails
    \/ ImportFails

RaceSpec == RaceInit /\ [][RaceNext]_vars

\* ------------------------------------------------- one cell, one division
\* a Bacteria about to divide: any pool of 1..maxPlasmids plasmids with distinct
\* ids; mutated plasmids only where the mutation rate is positive
CellInit ==
    /\ num_days = 1
    /\ num_generations = 1
    /\ num_reps = 0
    /\ maxexpe = 0
    /\ mut_rate \in { 0, 1 }
    /\ this_max_plasmids \in 1..MaxCopies
    /\ \E k \in 1..this_max_plasmids : \E fl \in [ 1..k -> BOOLEAN ] :
          /\ mut_rate = 0 => \A j \in 1..k : ~fl[j]
          /\ pop = << [ plasmids |-> [ j \in 1..k |->
                                        [ id |-> j, mutated |-> fl[j], parent |-> 0 ] ],
                        seg |-> FALSE ] >>
          /\ nextId = k + 1
    /\ pc = "cell"
    /\ irep = 0
    /\ nexpe = 0
    /\ this_nexpe = 0
    /\ fileSIM = << >>
    /\ eureka_n = 0
    /\ experiment_results = << >>
    /\ files = EmptyDir
    /\ pkls = EmptyDir
    /\ day = 0
    /\ ti = 0
    /\ outcome = "none"
    /\ sawSeg = FALSE
    /\ calls = 0
    /\ callsRep = 0
    /\ grows = 0
    /\ drawn = << >>
    /\ warm = FALSE
    /\ fh = NoFile
    /\ other = NoWorker

\* the cell's replicateToCapacity, as Population.grow calls it
CellReplicate ==
    /\ pc = "cell"
    /\ \E r \in replicateToCapacity(pop[1], nextId, mut_rate, this_max_plasmids) :
          /\ pop' = << [ pop[1] EXCEPT !.plasmids = r[1] ] >>
          /\ nextId' = r[2]
    /\ pc' = "replicated"
    /\ UNCHANGED << globals, this_max_plasmids, irep, nexpe,
                    this_nexpe, fileSIM, eureka_n, experiment_results, files, pkls,
                    day, ti, outcome, sawSeg, calls, callsRep, grows, drawn, warm, fh, other >>

\* the cell's segregate: the two daughters take its place
CellSegregate ==
    /\ pc = "replicated"
    /\ \E d \in segregate(pop[1]) : pop' = d
    /\ pc' = "segregated"
    /\ UNCHANGED << globals, this_max_plasmids, irep, nexpe,
                    this_nexpe, fileSIM, eureka_n, experiment_results, files, pkls,
                    day, ti, nextId, outcome, sawSeg, calls, callsRep, grows, drawn, warm, fh, other >>

CellNext ==
    \/ CellReplicate
    \/ CellSegregate

CellSpec == CellInit /\ [][CellNext]_vars

\* ================================================================ claims

\* C1: runExperiments always halts: from every loop head the run reaches the
\* point after the loop, and there irep = num_reps or nexpe >= maxexpe, whatever
\* the cache holds and however the attempts end.
C1_Halts ==
    (pc = "while") ~> (pc = "save" /\ (irep = num_reps \/ nexpe >= maxexpe))

\* C1 witness: with mut_rate = 0 every attempt was discarded and the loop was
\* left through the ceiling.
C1_Witness ==
    /\ pc = "save"
    /\ mut_rate = 0
    /\ maxexpe > 0
    /\ calls = maxexpe
    /\ irep < num_reps
    /\ nexpe >= maxexpe

\* C2 (as claimed): a run that finds the aggregate of a prior run holding all
\* num_reps records ends with the same number of records and, index by index,
\* the same recorded attempt count.
C2_RerunReproducesAggregate ==
    LET old == PklName(mut_rate, this_max_plasmids)
    IN  (pc = "save" /\ old \in DOMAIN pkls /\ Len(pkls[old]) = num_reps)
            => /\ Len(experiment_results) = Len(pkls[old])
               /\ \A j \in 1..Len(experiment_results) :
                     j <= Len(pkls[old]) => experiment_results[j].nexpe = pkls[old][j].nexpe

\* C3: simulateTransfer is never called for a replicate index whose tagged
\* artifact exists, and a run that starts with a tagged artifact for every index
\* 0..num_reps-1 makes no call at all.
C3_NoCallWhenCached ==
    /\ pc = "call" => ~HasTagged(files, mut_rate, this_max_plasmids, irep)
    /\ warm => calls = 0

\* C3 witness: a re-run over a complete cache has loaded a replicate and ended
\* without a call.
C3_Witness ==
    /\ warm
    /\ num_reps > 0
    /\ pc = "done"
    /\ Len(experiment_results) > 0
    /\ calls = 0

\* C4 (as claimed): in one run the simulateTransfer calls, summed over all
\* replicate indices, never exceed maxexpe.
C4_GlobalCeiling == calls <= maxexpe

\* C5 (as claimed): a fresh success is tagged, in the record and in the file
\* name, with the number of simulateTransfer calls made for its index in this
\* run, and leaves the attempt counter at 0 for the next index; this for every
\* index, also one that follows a replicate loaded from the cache.
C5_TagIsAttemptCount ==
    [][ (pc = "after" /\ eureka_n > 0 /\ this_nexpe = 0 /\ pc' = "while")
          => /\ nexpe' = 0
             /\ experiment_results'[Len(experiment_results')].nexpe = callsRep
             /\ TaggedName(mut_rate, this_max_plasmids, irep, callsRep) \in DOMAIN files' ]_vars

C7_SegregantAbortsAtOnce ==
    /\ [](sawSeg => pc \in { "segcheck", "after" })
    /\ [][ (pc = "segcheck" /\ \E j \in 1..Len(pop) : Len(pop[j].plasmids) = 0)
             => /\ pc' = "after"
                /\ eureka_n' = 0
                /\ files' = files
                /\ UntaggedName(mut_rate, this_max_plasmids, irep) \in DOMAIN files'
                /\ << pop', day', ti', grows' >> = << pop, day, ti, grows >> ]_vars

\* C7 witness: a segregant attempt has returned before the last step, and its
\* log of one row is on disk.
C7_Witness ==
    /\ pc = "after"
    /\ outcome = "segregant"
    /\ grows < num_days * num_generations
    /\ UntaggedName(mut_rate, this_max_plasmids, irep) \in DOMAIN files
    /\ Len(files[UntaggedName(mut_rate, this_max_plasmids, irep)].log) = 1

\* C8: when a wild-type attempt has returned, no file of its replicate key is on
\* disk, untagged or tagged; when a successful attempt has returned, its log is
\* on disk under the untagged name, complete.
C8_WildTypeLogDeleted ==
    /\ (pc = "after" /\ outcome = "wildType")
          => \A f \in DOMAIN files :
                 ~(files[f].m = this_max_plasmids /\ files[f].i = irep)
    /\ (pc = "after" /\ outcome = "success")
          => /\ UntaggedName(mut_rate, this_max_plasmids, irep) \in DOMAIN files
             /\ Len(files[UntaggedName(mut_rate, this_max_plasmids, irep)].log)
                    = num_days * num_generations

\* C8 witness: with a positive mutation rate an attempt ran to the end and was
\* discarded as wild-type.
C8_Witness ==
    /\ pc = "after"
    /\ outcome = "wildType"
    /\ mut_rate > 0
    /\ grows = num_days * num_generations

C10_CacheAcceptsOnlySuccess ==
    \A f \in DOMAIN files : \A m \in max_plasmids : \A i \in 0..MaxReps :
        startswith(f, str_pattern(mut_rate, m, i))
            => /\ files[f].success
               /\ files[f].m = m
               /\ files[f].i = i
               /\ Len(files[f].log) = num_days * num_generations

\* C10 witness: a tagged artifact and the leftover log of a segregant attempt
\* are on disk together at a loop head.
C10_Witness ==
    /\ pc = "while"
    /\ \E f \in DOMAIN files : \E m \in max_plasmids : \E i \in 0..MaxReps :
          startswith(f, str_pattern(mut_rate, m, i))
    /\ \E g \in DOMAIN files : ~files[g].success /\ Len(files[g].log) > 0

\* C11 (as claimed): a run that left the loop through the attempt ceiling with
\* irep < num_reps does not go on to save and return like a complete sweep: the
\* save-and-return path is taken by complete sweeps only.
C11_CeilingStopReported ==
    pc \in { "save", "done" } => irep = num_reps

\* the plasmid records of a pool, as a set
PlasmidSet(ps) == { ps[j] : j \in 1..Len(ps) }

\* C12: copy-number invariant: every bacterium always holds between 0 and
\* maxPlasmids plasmids, and replicateToCapacity on a bacterium holding at least
\* one plasmid leaves it with exactly maxPlasmids plasmids, the ones it held
\* still there and unchanged (plasmids are only added, never beyond the ceiling).
C12_CopyNumber ==
    /\ [](\A j \in 1..Len(pop) : Len(pop[j].plasmids) \in 0..this_max_plasmids)
    /\ [][ (pc = "cell" /\ pc' = "replicated" /\ Len(pop[1].plasmids) >= 1)
              => /\ Len(pop'[1].plasmids) = this_max_plasmids
                 /\ SubSeq(pop'[1].plasmids, 1, Len(pop[1].plasmids)) = pop[1].plasmids ]_vars

\* C12 witness: a cell that held one plasmid has been replicated to the largest
\* ceiling: its second and third plasmids are copies.
C12_Witness ==
    /\ pc = "replicated"
    /\ this_max_plasmids = MaxCopies
    /\ Len(pop[1].plasmids) = MaxCopies
    /\ pop[1].plasmids[2].parent # 0

\* C13: segregation conservation: the two daughters of a segregate call hold
\* disjoint sets of plasmid ids, together exactly the parent's plasmids with
\* the same ids and mutated flags, so the daughters' counts add up to the
\* parent's count.
C13_SegregationConserves ==
    [][ (pc = "replicated" /\ pc' = "segregated")
          => LET P == pop[1].plasmids
                 A == pop'[1].plasmids
                 B == pop'[2].plasmids
             IN  /\ Len(pop') = 2
                 /\ Len(A) + Len(B) = Len(P)
                 /\ { p.id : p \in PlasmidSet(A) } \cap { p.id : p \in PlasmidSet(B) } = {}
                 /\ PlasmidSet(A) \cup PlasmidSet(B) = PlasmidSet(P) ]_vars

\* C13 witness: a division where both daughters got plasmids, one of them a
\* mutated plasmid.
C13_Witness ==
    /\ pc = "segregated"
    /\ Len(pop[1].plasmids) >= 1
    /\ Len(pop[2].plasmids) >= 2
    /\ MutCount(pop[1].plasmids) >= 1

\* C14: at every day boundary the population becomes one bacterium, the one at
\* index 0 of the day's last generation, with its plasmid pool (count, ids,
\* mutated flags) as it was: the transfer replicates, segregates and mutates
\* nothing.
C14_SingleSurvivor ==
    /\ []((day > 0 /\ ti = 0 /\ pc \in { "grow", "wtcheck" })
              => (Len(pop) = 1 /\ pop[1] = drawn[Len(drawn)][1]))
    /\ [][ pc = "transfer"
              => /\ pop' = << pop[1] >>
                 /\ pop'[1].plasmids = drawn[Len(drawn)][1].plasmids
                 /\ nextId' = nextId ]_vars

\* C14 witness: a day of two generations has ended with four bacteria; the
\* first one alone was carried over, and the one next to it was different.
C14_Witness ==
    /\ day = 1
    /\ ti = 0
    /\ pc \in { "grow", "wtcheck" }
    /\ Len(drawn[Len(drawn)]) = 4
    /\ pop = << drawn[Len(drawn)][1] >>
    /\ drawn[Len(drawn)][4] # pop[1]

\* every plasmid of a population, as a set
AllPlasmids(bs) == UNION { PlasmidSet(bs[j].plasmids) : j \in 1..Len(bs) }

\* C15: mutation is irreversible along every lineage: through all the
\* generations of an attempt (replication, segregation, day transfers) a
\* plasmid keeps the mutated flag it was created with, and every copy made of
\* a mutated plasmid is mutated.
C15_MutationIrreversible ==
    \A k \in 1..Len(drawn) : \A l \in k..Len(drawn) :
        \A p \in AllPlasmids(drawn[k]) : \A q \in AllPlasmids(drawn[l]) :
            /\ q.id = p.id => q = p
            /\ (q.parent = p.id /\ p.mutated) => q.mutated

\* C15 witness: after a day transfer, a plasmid that was mutated in an earlier
\* generation has been copied in a later one.
C15_Witness ==
    /\ day >= 1
    /\ \E k \in 1..Len(drawn) : \E l \in (k + 1)..Len(drawn) :
          \E p \in AllPlasmids(drawn[k]) : \E q \in AllPlasmids(drawn[l]) :
              /\ p.mutated
              /\ q.parent = p.id
              /\ \A o \in AllPlasmids(drawn[k]) : o.id # q.id

\* what an attempt must leave, computed from the parameters and from the
\* populations ds its grow calls returned (its random draws) and nothing else:
\* the generation at which it stops for a segregant (0: none), the first n log
\* rows, whether the log stays on disk, and the value returned
ReplayStop(ds) ==
    IF \E k \in 1..Len(ds) : is_segregant(ds[k])
    THEN CHOOSE k \in 1..Len(ds) :
             is_segregant(ds[k]) /\ \A l \in 1..(k - 1) : ~is_segregant(ds[l])
    ELSE 0

ReplayLog(ds) ==
    IF ReplayStop(ds) > 0 THEN ReplayRows(ds, ReplayStop(ds) - 1)
    ELSE ReplayRows(ds, Len(ds))

ReplayKeepsLog(ds) == ReplayStop(ds) > 0 \/ ~isWT(<< ds[Len(ds)][1] >>)

ReplayReturn(ds) ==
    IF ReplayStop(ds) > 0 \/ isWT(<< ds[Len(ds)][1] >>) THEN 0 ELSE 1

\* C16: determinism: the log and the outcome of a simulateTransfer call are
\* functions of its parameters and of its sequence of random draws alone, so
\* two calls with the same parameters and draws leave identical logs and
\* return the same value, whatever was on disk or done before.
C16_Deterministic ==
    LET n == UntaggedName(mut_rate, this_max_plasmids, irep)
    IN  /\ outcome = "running"
            => /\ n \in DOMAIN files
               /\ Len(files[n].log) <= Len(drawn)
               /\ files[n].log = ReplayRows(drawn, Len(files[n].log))
        /\ (pc = "after" /\ outcome \in { "segregant", "wildType", "success" })
            => /\ eureka_n = ReplayReturn(drawn)
               /\ (n \in DOMAIN files) = ReplayKeepsLog(drawn)
               /\ n \in DOMAIN files => files[n].log = ReplayLog(drawn)

\* C16 witness: in a directory that holds the tagged log of another index, an
\* index was attempted again after a discarded attempt, and this attempt
\* succeeded with three rows.
C16_Witness ==
    /\ pc = "after"
    /\ outcome = "success"
    /\ irep = 1
    /\ callsRep >= 2
    /\ Len(drawn) = 3
    /\ HasTagged(files, mut_rate, this_max_plasmids, 0)

\* the names a sweep for copy number m builds: its logs, tagged or not
InKeySpace(f, mr, m) == startswith(f, BaseName(mr, m) \o << "_", "i", "r", "e", "p" >>)

\* the names in directory a or b that are not bound to the same content in both
Touched(a, b) ==
    { f \in (DOMAIN a) \cup (DOMAIN b) :
        f \notin DOMAIN a \/ f \notin DOMAIN b \/ a[f] # b[f] }

C18_SegregantRowLogged ==
    LET n == UntaggedName(mut_rate, this_max_plasmids, irep)
    IN  (pc = "after" /\ outcome = "segregant")
            => /\ n \in DOMAIN files
               /\ Len(files[n].log) = grows
               /\ files[n].log[grows] = << day, ti, str_mut(pop) >>

\* C19: the log of a successful replicate has exactly num_days x
\* num_generations rows, one per (day, ti) in lexicographic order, all written
\* by the successful attempt itself (row k carries the summary of that
\* attempt's k-th grow call); the record aggregated from it has as many rows.
C19_SuccessLogComplete ==
    LET n == UntaggedName(mut_rate, this_max_plasmids, irep)
        rows == num_days * num_generations
    IN  /\ \A f \in DOMAIN files :
              files[f].success
                  => /\ Len(files[f].log) = rows
                     /\ \A k \in 1..rows :
                          /\ files[f].log[k][1] = (k - 1) \div num_generations
                          /\ files[f].log[k][2] = (k - 1) % num_generations
        /\ (pc = "after" /\ outcome = "success")
              => /\ Len(drawn) = rows
                 /\ \A k \in 1..rows : files[n].log[k][3] = str_mut(drawn[k])
        /\ \A j \in 1..Len(experiment_results) : Len(experiment_results[j].data) = rows

\* C19 witness: with two generations a day, a replicate found at the second
\* attempt has been aggregated, with its two rows.
C19_Witness ==
    /\ pc = "while"
    /\ num_generations = 2
    /\ this_nexpe = 0
    /\ calls >= 2
    /\ Len(experiment_results) >= 1
    /\ experiment_results[1].nexpe >= 2
    /\ Len(experiment_results[1].data) = 2

\* some replication of the attempt with grow results ds made a mutated copy of
\* an unmutated plasmid
NewMutation(ds) ==
    \E k \in 1..Len(ds) : \E q \in AllPlasmids(ds[k]) : \E p \in AllPlasmids(ds[k]) :
        q.mutated /\ q.parent = p.id /\ ~p.mutated

\* C20: simulateTransfer returns 1 only if a replication of that attempt
\* produced a newly mutated plasmid; so with mut_rate = 0, starting from an
\* empty directory, no attempt succeeds for any max_plasmids: nothing is
\* collected, nothing is taken from the cache and no tagged log exists.
C20_SuccessNeedsMutation ==
    /\ (pc = "after" /\ this_nexpe = 0 /\ eureka_n > 0)
          => (outcome = "success" /\ NewMutation(drawn))
    /\ mut_rate = 0
          => /\ outcome \notin { "success", "cached" }
             /\ experiment_results = << >>
             /\ \A f \in DOMAIN files : ~files[f].success /\ f = UntaggedName(0, files[f].m, files[f].i)
             /\ \A m \in max_plasmids : \A i \in 0..MaxReps : ~HasTagged(files, 0, m, i)

\* C20 witness: with mut_rate = 0 and two plasmids per cell, a sweep that wants
\* replicates has spent its attempts, the last one ending wild-type after all
\* three days, and is about to save nothing.
C20_Witness ==
    /\ mut_rate = 0
    /\ this_max_plasmids = 2
    /\ num_days = 3
    /\ num_reps > 0
    /\ maxexpe >= 2
    /\ pc = "save"
    /\ calls = maxexpe
    /\ UntaggedName(0, 2, 0) \notin DOMAIN files
    /\ experiment_results = << >>

\* C21: replicateToCapacity is never called on a bacterium without plasmids:
\* the founder holds max_plasmids >= 1 plasmids, and every bacterium that
\* enters a grow step or is carried across a day boundary holds at least one,
\* so the sampling from the pre-replication pool is defined (grow has a result).
C21_NeverReplicatesEmpty ==
    /\ pc \in { "grow", "transfer", "wtcheck" }
          => \A j \in 1..Len(pop) : Len(pop[j].plasmids) >= 1
    /\ pc = "grow" => grow(pop, nextId, mut_rate, this_max_plasmids) # {}
    /\ this_max_plasmids >= 1
    /\ Len(Founder(this_max_plasmids).plasmids) = this_max_plasmids

\* C21 witness: a bacterium left with one plasmid of two by the last division
\* was carried across the day boundary and is about to grow.
C21_Witness ==
    /\ pc = "grow"
    /\ day >= 1
    /\ this_max_plasmids = 2
    /\ Len(pop) = 1
    /\ Len(pop[1].plasmids) = 1

\* C22: at every loop head, and after the loop, the result collection holds
\* exactly irep records, the j-th one made for replicate index j - 1 from the
\* log of that index; the aggregate artifact of this max_plasmids is written by
\* the one step after the loop and by no other, on either exit path, and holds
\* exactly those records.
C22_RecordsAndAggregate ==
    /\ [](pc \in { "while", "save", "done" }
              => /\ Len(experiment_results) = irep
                 /\ \A j \in 1..irep : experiment_results[j].irep = j - 1)
    /\ [][ (pc = "after" /\ eureka_n > 0)
              => /\ irep' = irep + 1
                 /\ files[fileSIM].i = irep
                 /\ experiment_results' = Append(experiment_results,
                        [ irep |-> irep, nexpe |-> nexpe + 1, data |-> files[fileSIM].log ]) ]_vars
    /\ [][ IF pc = "save"
           THEN /\ pc' = "done"
                /\ pkls' = Put(pkls, PklName(mut_rate, this_max_plasmids), experiment_results)
                /\ experiment_results' = experiment_results
           ELSE pkls' = pkls ]_vars
    /\ [](pc = "done"
              => /\ PklName(mut_rate, this_max_plasmids) \in DOMAIN pkls
                 /\ pkls[PklName(mut_rate, this_max_plasmids)] = experiment_results
                 /\ Len(experiment_results) = irep)

\* C22 witness: a sweep that wanted two replicates stopped at the ceiling with
\* one, found at its first index after an earlier discarded attempt, and has
\* saved that one record.
C22_Witness ==
    /\ pc = "done"
    /\ num_reps = 2
    /\ irep = 1
    /\ nexpe >= maxexpe
    /\ calls >= 3
    /\ Len(pkls[PklName(mut_rate, this_max_plasmids)]) = 1

\* a tagged log (name ending in _n<k>) that does not hold exactly the rows of
\* one successful attempt
BrokenArtifact ==
    \E f \in DOMAIN files :
        /\ LastNumber(f) >= 1
        /\ \E i \in 0..MaxReps : f = TaggedName(mut_rate, this_max_plasmids, i, LastNumber(f))
        /\ ~files[f].success

\* one of the two processes was ended by a rename, delete or import of a name
\* that was gone
MissingFileError == pc = "error" \/ other.pc = "error"

\* C23: the naming convention is no lock. A replicate is protected only once
\* its tagged log exists: a process that finds it simulates nothing and harms
\* nothing, so a missing-file error or a broken tagged log arises only when
\* both processes have simulated the replicate; and such runs exist (the
\* witness): both miss the cache for the same index, and one's truncate,
\* delete or rename hits the log the other is writing or about to rename.
C23_NoMutualExclusion ==
    (MissingFileError \/ BrokenArtifact) => (calls >= 1 /\ other.calls >= 1)

\* C23 witness: both processes simulated index 0; one was ended by a missing
\* file, and the tagged log on disk is not the log of one successful attempt.
C23_Witness ==
    /\ calls >= 1
    /\ other.calls >= 1
    /\ MissingFileError
    /\ BrokenArtifact

====
